---- MODULE Spec2Model ----
(***************************************************************************)
(* Model of mach_nix/generators/overlay_generator.py: OverlaysGenerator,   *)
(* which renders a resolved package set into a nix expression made of an   *)
(* overlay (override blocks, fresh blocks, alias lines) and a trailing     *)
(* python environment listing the root packages.                           *)
(*                                                                         *)
(* Package names and nixpkgs attribute keys are strings in one namespace;  *)
(* they are modelled as naturals, whose order stands for the string order  *)
(* used by sorted().  The generated text is modelled by its structure: a   *)
(* sequence of per-package chunks (block + alias lines) and the sequence   *)
(* of identifiers of the withPackages list.                                *)
(***************************************************************************)
EXTENDS Integers, Sequences, FiniteSets, TLC

VARIABLES resolved, nixpkgs, disable_checks, sorted_pkgs, pc, out, err

vars == <<resolved, nixpkgs, disable_checks, sorted_pkgs, pc, out, err>>

----------------------------------------------------------------------------
(* Bounds of the explored inputs *)

\* package names are 1..MaxName
MaxName == 2
\* packages + dependency edges + index candidates of one input
MaxSize == 4

Names == 1..MaxName
\* attribute keys of the index: every name, and one key that is no package name
Idents == 1..(MaxName + 1)
\* versions are only compared for equality: the version the resolver
\* selected for a package, and one other version
Vers == {1, 2}

\* Python's None: a missing version argument, a missing lookup result
None == 0
\* value of `out` when generate() returned nothing
NoOutput == <<"no output">>

----------------------------------------------------------------------------
(* Helpers: sets of bounded size, iteration orders, sorting *)

RECURSIVE KSubsets(_, _)
KSubsets(U, k) ==
    IF k <= 0 THEN {{}}
    ELSE LET prev == KSubsets(U, k - 1)
         IN  prev \cup {s \cup {x} : s \in prev, x \in U}

\* the elements of S as a sequence, in the order given by the ranking rk
RECURSIVE IterSeq(_, _)
IterSeq(S, rk) ==
    IF S = {} THEN <<>>
    ELSE LET x == CHOOSE y \in S : \A z \in S : rk[y] <= rk[z]
         IN  <<x>> \o IterSeq(S \ {x}, rk)

SeqRange(s) == {s[i] : i \in 1..Len(s)}

\* Python's sorted() on a sequence of identifiers (see SortRaises for the
\* sequences it cannot sort)
sorted(s) == SortSeq(s, LAMBDA a, b : a < b)

----------------------------------------------------------------------------
(* NixpkgsDirectory: the existing-package index.  nixpkgs.cands is the set *)
(* of candidates [name, nix_key, ver]; nixpkgs.best[name] is the key the   *)
(* index selects for the queried (name, version) -- one version per name   *)
(* is queried in a run -- or None when it can yield none; nixpkgs.strict   *)
(* tells whether an unanswerable lookup raises or returns None.            *)

get_all_candidates(name) == {c \in nixpkgs.cands : c.name = name}

exists(name, ver) ==
    \E c \in get_all_candidates(name) : ver = None \/ c.ver = ver

has_multiple_candidates(name) == Cardinality(get_all_candidates(name)) > 1

find_best_nixpkgs_candidate(name, ver) == nixpkgs.best[name]

\* the lookup find_best_nixpkgs_candidate(name, ver) raises
LookupRaises(name) ==
    /\ nixpkgs.strict
    /\ exists(name, None)
    /\ nixpkgs.best[name] = None

----------------------------------------------------------------------------
(* OverlaysGenerator *)

\* generate without the sort: the packages in the order the resolver
\* returned them
UnsortedPkgs(returned) == returned

\* generate: OrderedDict(sorted(((p.name, p) for p in pkgs), key=name))
SortedPkgs(returned) == SortSeq(returned, LAMBDA p, q : p.name < q.name)

HasKey(pkgs, name) == \E i \in 1..Len(pkgs) : pkgs[i].name = name

\* pkgs[name]
PkgOf(pkgs, name) == pkgs[CHOOSE i \in 1..Len(pkgs) : pkgs[i].name = name]

\* _get_ref_name without the index lookup
BareRefName(name, ver) == name

_get_ref_name(name, ver) ==
    IF exists(name, None) THEN find_best_nixpkgs_candidate(name, ver)
    ELSE name

\* _needs_overlay without its second condition
NeedsOverlayIfMissing(name, ver) == ~exists(name, ver)

_needs_overlay(name, ver) ==
    ~exists(name, ver) \/ has_multiple_candidates(name)

_gen_build_inputs(build_inputs_local, build_inputs_nixpkgs, iter) ==
    LET loc == sorted(IterSeq(build_inputs_local, iter))
        nix == sorted(IterSeq(build_inputs_nixpkgs, iter))
    IN  [i \in 1..Len(loc) |-> [ns |-> "", id |-> loc[i]]]
        \o [i \in 1..Len(nix) |-> [ns |-> "python-self", id |-> nix[i]]]

_gen_prop_build_inputs(prop_build_inputs_local, prop_build_inputs_nixpkgs, iter) ==
    LET loc == sorted(IterSeq(prop_build_inputs_local, iter))
        nix == sorted(IterSeq(prop_build_inputs_nixpkgs, iter))
    IN  [i \in 1..Len(loc) |-> [ns |-> "", id |-> loc[i]]]
        \o [i \in 1..Len(nix) |-> [ns |-> "python-self", id |-> nix[i]]]

\* the block `nix_name = python-super.nix_name.overrideAttrs ( oldAttrs: {..})`;
\* an empty input list means the attribute line is not emitted
_gen_overrideAttrs(name, ver, nix_name, build_inputs_str, prop_build_inputs_str) ==
    [kind |-> "overrideAttrs",
     key |-> nix_name,
     name |-> name,
     ver |-> ver,
     buildInputs |-> build_inputs_str,
     propagatedBuildInputs |-> prop_build_inputs_str,
     doCheck |-> IF disable_checks THEN "false" ELSE "unset",
     doInstallCheck |-> IF disable_checks THEN "false" ELSE "unset"]

\* _gen_builPythonPackage without the disable_checks branch
FreshBlockWithChecks(name, ver, build_inputs_str, prop_build_inputs_str) ==
    [kind |-> "buildPythonPackage",
     key |-> name,
     name |-> name,
     ver |-> ver,
     buildInputs |-> build_inputs_str,
     propagatedBuildInputs |-> prop_build_inputs_str,
     doCheck |-> "unset",
     doInstallCheck |-> "unset"]

\* the block `name = python.pkgs.buildPythonPackage {..}`
_gen_builPythonPackage(name, ver, build_inputs_str, prop_build_inputs_str) ==
    [kind |-> "buildPythonPackage",
     key |-> name,
     name |-> name,
     ver |-> ver,
     buildInputs |-> build_inputs_str,
     propagatedBuildInputs |-> prop_build_inputs_str,
     doCheck |-> IF disable_checks THEN "false" ELSE "unset",
     doInstallCheck |-> IF disable_checks THEN "false" ELSE "unset"]

\* _gen_unify_nixpkgs_keys with the two sides of the binding swapped
SwappedAliasLines(master_key, nixpkgs_keys) ==
    [i \in 1..Len(nixpkgs_keys) |-> [key |-> master_key, target |-> nixpkgs_keys[i]]]

\* one line `key = master_key;` per key
_gen_unify_nixpkgs_keys(master_key, nixpkgs_keys) ==
    [i \in 1..Len(nixpkgs_keys) |-> [key |-> nixpkgs_keys[i], target |-> master_key]]

NoError == [type |-> "none", key |-> None]

\* the exception raised while the list comprehension
\* [self._get_ref_name(b, pkgs[b].ver) for b in inputs] walks `inputs`:
\* pkgs[b] raises KeyError, the index lookup may raise
InputsError(pkgs, inputs) ==
    LET bad == {i \in 1..Len(inputs) :
                   ~HasKey(pkgs, inputs[i]) \/ LookupRaises(inputs[i])}
    IN  IF bad = {} THEN NoError
        ELSE LET i == CHOOSE j \in bad : \A k \in bad : j <= k
             IN  [type |-> IF ~HasKey(pkgs, inputs[i]) THEN "KeyError"
                           ELSE "LookupError",
                  key |-> inputs[i]]

\* sorted() raises TypeError when it has to compare None with a string
SortRaises(S) == None \in S /\ Cardinality(S) > 1

\* _gen_overlays: [self._get_ref_name(b, pkgs[b].ver) for b in inputs], as
\* the set of names the two set expressions built from it see
InputRefs(pkgs, inputs) ==
    {_get_ref_name(b, PkgOf(pkgs, b).ver) : b \in inputs}

\* _gen_overlays: {b for b in _build_inputs if b in overlay_keys}
LocalInputs(refs, overlay_keys) == {b \in refs : b \in overlay_keys}

\* _gen_overlays, body of the loop for a package of overlay_keys: the
\* exception it raises, if any
PkgError(pkg, pkgs, overlay_keys, iter) ==
    LET e1 == InputsError(pkgs, IterSeq(pkg.build_inputs, iter))
        e2 == InputsError(pkgs, IterSeq(pkg.prop_build_inputs, iter))
        refs1 == InputRefs(pkgs, pkg.build_inputs)
        refs2 == InputRefs(pkgs, pkg.prop_build_inputs)
        unsortable(refs) ==
            \/ SortRaises(LocalInputs(refs, overlay_keys))
            \/ SortRaises(refs \ LocalInputs(refs, overlay_keys))
    IN  IF e1 # NoError THEN e1
        ELSE IF e2 # NoError THEN e2
        ELSE IF unsortable(refs1) \/ unsortable(refs2)
             THEN [type |-> "TypeError", key |-> None]
        ELSE IF LookupRaises(pkg.name)
             THEN [type |-> "LookupError", key |-> pkg.name]
        ELSE NoError

\* other_names without the filter on master_key
AllCandidateNames(master_key, all_keys) == all_keys

\* _gen_overlays: (p.nix_key for p in candidates if p.nix_key != master_key)
OtherNames(master_key, all_keys) ==
    SelectSeq(all_keys, LAMBDA k : k # master_key)

\* _gen_overlays, body of the loop for a package of overlay_keys: the text
\* appended to `out`, a block followed by its alias lines
PkgOverlay(pkg, pkgs, overlay_keys, iter) ==
    LET _build_inputs == InputRefs(pkgs, pkg.build_inputs)
        build_inputs_local == LocalInputs(_build_inputs, overlay_keys)
        build_inputs_nixpkgs == _build_inputs \ build_inputs_local
        _prop_build_inputs == InputRefs(pkgs, pkg.prop_build_inputs)
        prop_build_inputs_local == LocalInputs(_prop_build_inputs, overlay_keys)
        prop_build_inputs_nixpkgs == _prop_build_inputs \ prop_build_inputs_local
        build_inputs_str ==
            _gen_build_inputs(build_inputs_local, build_inputs_nixpkgs, iter)
        prop_build_inputs_str ==
            _gen_prop_build_inputs(prop_build_inputs_local,
                                   prop_build_inputs_nixpkgs, iter)
    IN  IF exists(pkg.name, None)
        THEN LET nix_name == find_best_nixpkgs_candidate(pkg.name, pkg.ver)
                 master_key == _get_ref_name(pkg.name, pkg.ver)
                 all_keys == IterSeq({p.nix_key : p \in get_all_candidates(pkg.name)},
                                     iter)
                 other_names == OtherNames(master_key, all_keys)
             IN  [block |-> _gen_overrideAttrs(pkg.name, pkg.ver, nix_name,
                                               build_inputs_str, prop_build_inputs_str),
                  aliases |-> _gen_unify_nixpkgs_keys(master_key, sorted(other_names))]
        ELSE [block |-> _gen_builPythonPackage(pkg.name, pkg.ver,
                                               build_inputs_str, prop_build_inputs_str),
              aliases |-> <<>>]

\* _gen_overlays: the loop over pkgs.values(), from position i on
RECURSIVE GenOverlaysFrom(_, _, _, _)
GenOverlaysFrom(pkgs, overlay_keys, iter, i) ==
    IF i > Len(pkgs) THEN [err |-> NoError, chunks |-> <<>>]
    ELSE IF pkgs[i].name \notin overlay_keys
         THEN GenOverlaysFrom(pkgs, overlay_keys, iter, i + 1)
    ELSE LET e == PkgError(pkgs[i], pkgs, overlay_keys, iter)
         IN  IF e # NoError THEN [err |-> e, chunks |-> <<>>]
             ELSE LET rest == GenOverlaysFrom(pkgs, overlay_keys, iter, i + 1)
                  IN  IF rest.err # NoError THEN rest
                      ELSE [err |-> NoError,
                            chunks |-> <<PkgOverlay(pkgs[i], pkgs, overlay_keys, iter)>>
                                       \o rest.chunks]

_gen_overlays(pkgs, overlay_keys, iter) ==
    GenOverlaysFrom(pkgs, overlay_keys, iter, 1)

\* pkg_names without the is_root filter
EveryPkg(pkgs) == pkgs

\* _gen_python_env: the packages of the withPackages list
RootPkgs(pkgs) == SelectSeq(pkgs, LAMBDA p : p.is_root)

\* _gen_python_env: {p.name for p in pkgs.values() if self._needs_overlay(..)}
OverlayKeys(pkgs) ==
    {pkgs[i].name : i \in {j \in 1..Len(pkgs) :
                              _needs_overlay(pkgs[j].name, pkgs[j].ver)}}

_gen_python_env(pkgs, iter) ==
    LET overlay_keys == OverlayKeys(pkgs)
        ov == _gen_overlays(pkgs, overlay_keys, iter)
        roots == RootPkgs(pkgs)
        bad == {i \in 1..Len(roots) : LookupRaises(roots[i].name)}
        pkg_names == [i \in 1..Len(roots) |->
                         _get_ref_name(roots[i].name, roots[i].ver)]
    IN  IF ov.err # NoError THEN [err |-> ov.err, text |-> NoOutput]
        ELSE IF bad # {}
             THEN [err |-> [type |-> "LookupError",
                            key |-> roots[CHOOSE i \in bad : \A k \in bad : i <= k].name],
                   text |-> NoOutput]
        ELSE [err |-> NoError,
              text |-> [overlay |-> ov.chunks, env |-> pkg_names]]

\* generate(reqs): `returned` is what resolver.resolve() returned
generate(returned, iter) == _gen_python_env(SortedPkgs(returned), iter)

----------------------------------------------------------------------------
(* Inputs *)

\* the orders in which the resolver may return the resolved set
ResolverOrders(S) ==
    {s \in [1..Cardinality(S) -> S] : \A i, j \in 1..Cardinality(S) : s[i] = s[j] => i = j}

\* iteration orders of Python sets (hash order) and of the candidate list
IterOrders ==
    LET elems == Idents \cup {None}
    IN  {[x \in elems |-> x], [x \in elems |-> 0 - x],
         [x \in elems |-> (x + 1) % (MaxName + 2)]}

\* dependency edges <<package, kind, dependency>> out of the packages `present`
EdgeUniverse(present) ==
    {e \in present \X {"build", "prop"} \X Names : e[1] # e[3]}

\* versions of different names are never compared with each other, so
\* every package is resolved to the first version, without loss of
\* generality; the index's candidates range over all versions
ResolvedVer == CHOOSE v \in Vers : \A w \in Vers : v <= w

ResolvedSet(present, roots, edges) ==
    {[name |-> n, ver |-> ResolvedVer, is_root |-> n \in roots,
      build_inputs |-> {e[3] : e \in {f \in edges : f[1] = n /\ f[2] = "build"}},
      prop_build_inputs |-> {e[3] : e \in {f \in edges : f[1] = n /\ f[2] = "prop"}}]
     : n \in present}

\* the functions best[name] over the names 1..k: a key of the name's
\* candidates, None for a name without candidates (and, if mayFail, also
\* for a name with candidates)
RECURSIVE BestChoices(_, _, _)
BestChoices(k, pairs, mayFail) ==
    IF k = 0 THEN {<<>>}
    ELSE LET keys == {p[2] : p \in {q \in pairs : q[1] = k}}
             opts == IF keys = {} THEN {None}
                     ELSE IF mayFail THEN keys \cup {None} ELSE keys
         IN  {Append(s, b) : s \in BestChoices(k - 1, pairs, mayFail), b \in opts}

InitInputs(mayFail) ==
    \E present \in SUBSET Names :
    \E roots \in SUBSET present :
    \E edges \in KSubsets(EdgeUniverse(present), MaxSize - Cardinality(present)) :
    \E pairs \in KSubsets(present \X Idents,
                          MaxSize - Cardinality(present) - Cardinality(edges)) :
    \E cver \in [pairs -> Vers] :
    \E best \in BestChoices(MaxName, pairs, mayFail) :
    \E strict \in IF mayFail THEN BOOLEAN ELSE {FALSE} :
        /\ resolved = ResolvedSet(present, roots, edges)
        /\ nixpkgs = [cands |-> {[name |-> p[1], nix_key |-> p[2], ver |-> cver[p]]
                                 : p \in pairs},
                      best |-> best,
                      strict |-> strict]

Init ==
    /\ InitInputs(FALSE)
    /\ disable_checks \in BOOLEAN
    /\ sorted_pkgs = <<>>
    /\ pc = "ready"
    /\ out = NoOutput
    /\ err = NoError

\* also the indexes that report a package but yield no identifier for it
InitInconsistent ==
    /\ InitInputs(TRUE)
    /\ disable_checks \in BOOLEAN
    /\ sorted_pkgs = <<>>
    /\ pc = "ready"
    /\ out = NoOutput
    /\ err = NoError

----------------------------------------------------------------------------
(* Actions *)

\* generate, first statements: resolver.resolve(reqs) returns the resolved
\* set in some order; it is put into an OrderedDict sorted by name
Resolve ==
    /\ pc = "ready"
    /\ \E returned \in ResolverOrders(resolved) :
          sorted_pkgs' = SortedPkgs(returned)
    /\ pc' = "resolved"
    /\ UNCHANGED <<resolved, nixpkgs, disable_checks, out, err>>

\* generate, last statement: _gen_python_env(pkgs) returns the expression
GenPythonEnv ==
    /\ pc = "resolved"
    /\ \E iter \in IterOrders :
          LET r == _gen_python_env(sorted_pkgs, iter)
          IN  /\ r.err = NoError
              /\ out' = r.text
              /\ err' = NoError
    /\ pc' = "done"
    /\ UNCHANGED <<resolved, nixpkgs, disable_checks, sorted_pkgs>>

\* generate, last statement: _gen_python_env(pkgs) raises
GenPythonEnvRaises ==
    /\ pc = "resolved"
    /\ \E iter \in IterOrders :
          LET r == _gen_python_env(sorted_pkgs, iter)
          IN  /\ r.err # NoError
              /\ out' = NoOutput
              /\ err' = r.err
    /\ pc' = "failed"
    /\ UNCHANGED <<resolved, nixpkgs, disable_checks, sorted_pkgs>>

Next == Resolve \/ GenPythonEnv \/ GenPythonEnvRaises

Spec == Init /\ [][Next]_vars

SpecInconsistent == InitInconsistent /\ [][Next]_vars

----------------------------------------------------------------------------
(* Reading the generated expression *)

Done == pc = "done"

\* the chunks of the overlay emitted for the package called name
ChunksOf(name) ==
    {i \in 1..Len(out.overlay) : out.overlay[i].block.name = name}

\* the alias lines of chunk i binding key
AliasesFor(i, key) ==
    {j \in 1..Len(out.overlay[i].aliases) : out.overlay[i].aliases[j].key = key}

\* the identifiers the index has for name
KeysOf(name) == {c.nix_key : c \in get_all_candidates(name)}

\* the identifier the index selects for the resolved package called name
Canonical(p) == find_best_nixpkgs_candidate(p.name, p.ver)

\* the OverlayKeySet: the names of the packages that need an overlay entry
OverlayKeySet ==
    {p.name : p \in {q \in resolved :
                        \/ ~exists(q.name, q.ver)
                        \/ Cardinality(KeysOf(q.name)) > 1}}

\* the elements of a set of names as the ascending sequence
Ascending(S) == IterSeq(S, [x \in S |-> x])

----------------------------------------------------------------------------
(* Claims *)

\* C1 (collision safety): after a successful generation, every resolved
\* package whose name has more than one index identifier has exactly one
\* block, an override block, and in its chunk exactly one alias line for
\* each identifier other than the canonical one and none for the canonical
\* one; no alias line binds an identifier to itself; a package that needs
\* an overlay only because the index has no exact match gets no alias line.
CollisionSafety ==
    Done =>
        \A p \in resolved :
            /\ Cardinality(KeysOf(p.name)) > 1 =>
                  /\ Cardinality(ChunksOf(p.name)) = 1
                  /\ \A i \in ChunksOf(p.name) :
                        /\ out.overlay[i].block.kind = "overrideAttrs"
                        /\ \A k \in KeysOf(p.name) \ {Canonical(p)} :
                              /\ Cardinality(AliasesFor(i, k)) = 1
                              /\ \A j \in AliasesFor(i, k) :
                                    out.overlay[i].aliases[j].target = Canonical(p)
                        /\ AliasesFor(i, Canonical(p)) = {}
                        /\ Len(out.overlay[i].aliases)
                               = Cardinality(KeysOf(p.name)) - 1
            /\ \A i \in ChunksOf(p.name) :
                  \A j \in 1..Len(out.overlay[i].aliases) :
                      out.overlay[i].aliases[j].key # out.overlay[i].aliases[j].target
            /\ (~exists(p.name, p.ver) /\ Cardinality(KeysOf(p.name)) <= 1) =>
                  \A i \in ChunksOf(p.name) : out.overlay[i].aliases = <<>>

\* C1 witness: a generated overlay with an override block that has two alias
\* lines, and a block of a package the index has no exact match for
CollisionSafetyWitness ==
    /\ Done
    /\ \E p \in resolved :
          /\ Cardinality(KeysOf(p.name)) > 2
          /\ \E i \in ChunksOf(p.name) : Len(out.overlay[i].aliases) = 2

\* C4 (root completeness): the withPackages list of a generated expression
\* is the reference names of the root packages, each once, in the order of
\* the package names.
RootCompleteness ==
    Done =>
        LET rootNames == Ascending({p.name : p \in {q \in resolved : q.is_root}})
            refOf(n) == LET p == CHOOSE q \in resolved : q.name = n
                        IN  IF exists(n, None) THEN Canonical(p) ELSE n
        IN  /\ Len(out.env) = Len(rootNames)
            /\ \A i \in 1..Len(rootNames) : out.env[i] = refOf(rootNames[i])

\* C4 witness: a generated expression for a root package and a package that
\* is no root
RootCompletenessWitness ==
    /\ Done
    /\ Len(out.env) = 1
    /\ \E p \in resolved : ~p.is_root

\* C7 (check-disabling propagation): with disable_checks every block of the
\* generated overlay carries doCheck = false and doInstallCheck = false;
\* without it no block carries either.
CheckDisabling ==
    Done =>
        \A i \in 1..Len(out.overlay) :
            IF disable_checks
            THEN /\ out.overlay[i].block.doCheck = "false"
                 /\ out.overlay[i].block.doInstallCheck = "false"
            ELSE /\ out.overlay[i].block.doCheck = "unset"
                 /\ out.overlay[i].block.doInstallCheck = "unset"

\* C7 witness: checks are disabled and the overlay has an override block and
\* a fresh block
CheckDisablingWitness ==
    /\ Done
    /\ disable_checks
    /\ \E i, j \in 1..Len(out.overlay) :
          /\ out.overlay[i].block.kind = "overrideAttrs"
          /\ out.overlay[j].block.kind = "buildPythonPackage"

PkgNamed(name) == CHOOSE p \in resolved : p.name = name

\* the keys the overlay defines for the package called name: the key of its
\* block and the keys of its alias lines
DefinedKeysOf(name) ==
    {out.overlay[i].block.key : i \in ChunksOf(name)}
        \cup UNION {{out.overlay[i].aliases[j].key : j \in 1..Len(out.overlay[i].aliases)}
                    : i \in ChunksOf(name)}

\* reference r resolves for the dependency called b
RefResolves(b, r) ==
    \/ r.id \in DefinedKeysOf(b)
    \/ exists(b, None) /\ r.id = Canonical(PkgNamed(b))

\* C6 (completeness): in a generated overlay, every dependency of an emitted
\* block is rendered, in the list of its kind, as a reference that is a key
\* the overlay defines for that dependency or the canonical identifier the
\* index has for it, and the lists hold no other reference.
Completeness ==
    Done =>
        \A i \in 1..Len(out.overlay) :
            LET blk == out.overlay[i].block
                p == PkgNamed(blk.name)
            IN  /\ \A b \in p.build_inputs :
                      \E r \in SeqRange(blk.buildInputs) : RefResolves(b, r)
                /\ \A b \in p.prop_build_inputs :
                      \E r \in SeqRange(blk.propagatedBuildInputs) : RefResolves(b, r)
                /\ \A r \in SeqRange(blk.buildInputs) :
                      \E b \in p.build_inputs : RefResolves(b, r)
                /\ \A r \in SeqRange(blk.propagatedBuildInputs) :
                      \E b \in p.prop_build_inputs : RefResolves(b, r)

\* C6 witness: a generated block with a dependency that the overlay defines
\* under a key other than its name
CompletenessWitness ==
    /\ Done
    /\ \E i \in 1..Len(out.overlay) :
          \E b \in PkgNamed(out.overlay[i].block.name).build_inputs
                     \cup PkgNamed(out.overlay[i].block.name).prop_build_inputs :
              /\ exists(b, None)
              /\ Canonical(PkgNamed(b)) # b

Dangling ==
    \E p \in resolved :
        \E b \in p.build_inputs \cup p.prop_build_inputs :
            \A q \in resolved : q.name # b

\* C2 (MissingDependencyReference): for a resolved set with a dangling
\* input name, generation does not return an expression; when it has
\* failed there is no output and the error names a missing dependency.
MissingDependencyFails ==
    Dangling =>
        /\ ~Done
        /\ pc = "failed" =>
              /\ out = NoOutput
              /\ err.type = "KeyError"
              /\ \A q \in resolved : q.name # err.key

\* the identifier a reference to the dependency called b is built from
RefIdOf(b) ==
    IF exists(b, None) THEN Canonical(PkgNamed(b)) ELSE b

\* the dependency called b is referenced in refs as the split demands:
\* unprefixed if b is in the OverlayKeySet, with the prefix if not
SplitRight(b, refs) ==
    \E r \in SeqRange(refs) :
        /\ r.id = RefIdOf(b)
        /\ r.ns = IF b \in OverlayKeySet THEN "" ELSE "python-self"

\* C3 (local vs index-drawn split): in every emitted block each dependency
\* whose package is in the OverlayKeySet is referenced unprefixed, each
\* other dependency with the prefix python-self.
LocalSplit ==
    Done =>
        \A i \in 1..Len(out.overlay) :
            LET blk == out.overlay[i].block
                p == PkgNamed(blk.name)
            IN  /\ \A b \in p.build_inputs : SplitRight(b, blk.buildInputs)
                /\ \A b \in p.prop_build_inputs :
                      SplitRight(b, blk.propagatedBuildInputs)

\* every identifier written into the generated expression
EmittedIdents ==
    UNION {{out.overlay[i].block.key}
           \cup {r.id : r \in SeqRange(out.overlay[i].block.buildInputs)}
           \cup {r.id : r \in SeqRange(out.overlay[i].block.propagatedBuildInputs)}
           \cup {a.key : a \in SeqRange(out.overlay[i].aliases)}
           \cup {a.target : a \in SeqRange(out.overlay[i].aliases)}
           : i \in 1..Len(out.overlay)}
        \cup SeqRange(out.env)

\* C5 (IndexLookupInconsistency): no generated expression holds a block key,
\* an alias line or a reference built from an identifier the index did not
\* yield.
NoMissingIdentifier == Done => None \notin EmittedIdents

\* the places of the overlay that define a key: <<i, 0>> the block of chunk
\* i, <<i, j>> its j-th alias line
KeyPlaces ==
    {<<i, 0>> : i \in 1..Len(out.overlay)}
        \cup UNION {{<<i, j>> : j \in 1..Len(out.overlay[i].aliases)}
                    : i \in 1..Len(out.overlay)}

KeyAt(pl) ==
    IF pl[2] = 0 THEN out.overlay[pl[1]].block.key
    ELSE out.overlay[pl[1]].aliases[pl[2]].key

\* C10 as stated (unique keys): no key is defined twice in a generated
\* overlay, across all blocks and alias lines.
KeysUnique ==
    Done => \A a, b \in KeyPlaces : a # b => KeyAt(a) # KeyAt(b)

\* the index keeps the resolved packages apart: no identifier is a candidate
\* of two of them, and the name of a package the index does not have is no
\* candidate of another one
IndexKeepsApart ==
    \A p, q \in resolved :
        p.name # q.name =>
            /\ KeysOf(p.name) \cap KeysOf(q.name) = {}
            /\ ~exists(p.name, None) => p.name \notin KeysOf(q.name)

\* C10 as amended: when the index keeps the resolved packages apart, no key
\* is defined twice in a generated overlay.
KeysUniqueApart ==
    (Done /\ IndexKeepsApart) =>
        \A a, b \in KeyPlaces : a # b => KeyAt(a) # KeyAt(b)

\* C10 witness: an index that keeps the packages apart and a generated
\* overlay with two blocks and an alias line
KeysUniqueApartWitness ==
    /\ Done
    /\ IndexKeepsApart
    /\ Len(out.overlay) = 2
    /\ \E pl \in KeyPlaces : pl[2] > 0

====
